---- MODULE Spec2Model ----
(***************************************************************************)
(* Model of the word-chain game (App component, GameScreen form, Gemini    *)
(* service helpers).  React state variables keep their source names.       *)
(*                                                                         *)
(* Numbers: similarities and thresholds are JavaScript floats in the       *)
(* source.  They are modelled in fixed point, Scale units per 1.0 (five    *)
(* decimals), one decimal finer than the points grid so that Math.round    *)
(* in the score computation is a real rounding.  A difficulty multiplier   *)
(* (0.25, 1.0, 2.0) is held in quarters (1, 4, 8).                          *)
(*                                                                         *)
(* Words are sequences of one-character strings so that the cleaning of    *)
(* an oracle response (quote and period removal, trimming) is computed.    *)
(***************************************************************************)
EXTENDS Integers, Sequences, FiniteSets, TLC

VARIABLES
    gameState,          \* GameState enum
    difficulty,         \* Difficulty | null
    currentThreshold,
    score,
    currentWord,
    history,            \* GameAttempt[]
    lives,
    isLoading,
    error,              \* kind of the message shown, "none" for null
    timeLeft,
    pending,            \* the outstanding oracle call with the closure it resumes in
    lastEvent,          \* history variable: the handler (and branch) that ran last
    pre,                \* history variable: the state when the resolved async handler was invoked
    startWord,          \* history variable: the word the current session started with
    calc,               \* scratch record of the score-computation check (PointsSpec)
    idleTicks,          \* history variable: ticks of the session so far while the player
                        \* has submitted nothing; -1 otherwise
    earlierWord,        \* history variable: the word the previous session started with
    rank,               \* scratch record of the rank-computation check (RankSpec)
    finalSimilarity,    \* GameOverScreen state: number | null
    isLoadingSimilarity,\* GameOverScreen state
    finalCall,          \* the similarity call of the mounted GameOverScreen
    staleCall,          \* some call of an unmounted GameOverScreen is still outstanding
    isNewLocalHighScore,\* GameOverScreen state
    submissionComplete, \* GameOverScreen state
    isSubmitting,       \* GameOverScreen state
    isLoadingLeaderboard, \* GameOverScreen state
    boardCall,          \* the mount effect's getLeaderboard call is outstanding
    scoreCall           \* handleNameSubmit's position: "none", "submit", "refresh"

vars == <<gameState, difficulty, currentThreshold, score, currentWord, history,
          lives, isLoading, error, timeLeft, pending, lastEvent, pre, startWord, calc,
          rank, earlierWord, idleTicks, finalSimilarity, isLoadingSimilarity, finalCall, staleCall,
          isNewLocalHighScore, submissionComplete, isSubmitting,
          isLoadingLeaderboard, boardCall, scoreCall>>

similarityVars == <<finalSimilarity, isLoadingSimilarity, finalCall>>
recordVars == <<isNewLocalHighScore, submissionComplete, isSubmitting,
                isLoadingLeaderboard, boardCall, scoreCall>>
screenVars == <<similarityVars, staleCall, recordVars>>

sessionVars == <<gameState, difficulty, currentThreshold, score, currentWord,
                 history, lives, timeLeft>>

----------------------------------------------------------------------------
(* Program constants *)

PointsFactor == 10000
Scale == 10 * PointsFactor
\* variant: the threshold is lowered after a success
ThresholdStepDown == 0 - (Scale \div 100)
ThresholdStep == Scale \div 100
InitialLives == 3
RoundSeconds == 30
Penalty == 1000

(* Bounds of the model *)

\* number of distinct plain words the player types
MaxWords == 2
\* largest number of earlier successes in the score-computation check
MaxPriorSuccesses == 2

----------------------------------------------------------------------------
(* Types *)

SELECTING_DIFFICULTY == "SELECTING_DIFFICULTY"
PLAYING == "PLAYING"
GAME_OVER == "GAME_OVER"

NullDifficulty == [name |-> "null", threshold |-> 0, multiplier |-> 0]

predefinedDifficulties ==
    { [name |-> "easy",   threshold |-> 25 * (Scale \div 100), multiplier |-> 1],
      [name |-> "normal", threshold |-> 50 * (Scale \div 100), multiplier |-> 4],
      [name |-> "hard",   threshold |-> 75 * (Scale \div 100), multiplier |-> 8] }

\* values typed into the custom-threshold box (parseInt result)
CustomInputs == {0, 30}

TimeoutMarker == <<"(", "t", "i", "m", "e", "o", "u", "t", ")">>

\* raw text of the starting-word response, as generateGeminiContent returns it
\* (trimmed and non-empty)
WordResponses == { <<"a">>, <<"'", "b", ".", "'">>, <<"'", ".", "'">> }

\* raw text typed into the word box
TypedWords == << <<"a">>, TimeoutMarker, <<"b">>, <<"c">> >>
WordInputs ==
    { TypedWords[i] : i \in 1..MaxWords } \cup { <<" ", "a">>, <<" ">> }

\* localStorage's localHighScore as the game-over screen finds it (the
\* browser's store: empty, or holding a score no session here reaches)
SavedScores == { 0, 1000000 }

\* text of the similarity response, as generateGeminiContent returns it
SimilarityTexts ==
    { <<"-", "3">>, <<"0", ".", "5">>, <<"~", "1", ".", "5">>, <<"n", "/", "a">> }

NoCall == [kind |-> "none"]
NullSimilarity == [isNull |-> TRUE, value |-> 0]
NoSnapshot == [gameState |-> "none"]
NoCalc == [done |-> FALSE, similarity |-> 0, currentThreshold |-> 0,
           multiplier |-> 0, history |-> <<>>, success |-> FALSE,
           basePoints |-> 0, roundNumber |-> 0, bonusPoints |-> 0, points |-> 0]

\* calculateRank's null
NullRank == 0
\* the leaderboard shows the top three
TopRanks == 3
\* longest leaderboard the service is taken to answer with
MaxBoard == 3

NoRank == [done |-> FALSE, scoreToRank |-> 0, currentLeaderboard |-> <<>>,
           result |-> NullRank]
RankScores == { -1000, 0, 50, 300, 600 }
BoardScores == { 50, 100, 300, 500 }
\* data.leaderboard is whatever the remote script answers: any order
Leaderboards ==
    UNION { [1..n -> [score : BoardScores]] : n \in 0..MaxBoard }
RankInputs ==
    { [NoRank EXCEPT !.scoreToRank = s, !.currentLeaderboard = lb] :
        s \in RankScores, lb \in Leaderboards }

\* inputs of the score-computation check
CalcSimilarities == { -Scale, 40000, 50000, 50004, 50005, 65000, 76543, Scale }
CalcThresholds == { 25000, 50000, 51000, 75000 }
CalcMultipliers == { 1, 4, 8 }
SampleSuccess ==
    [previousWord |-> <<"a">>, newWord |-> <<"b">>, similarity |-> 60000,
     success |-> TRUE, requiredThreshold |-> 50000, points |-> 1200]
SampleFailure ==
    [previousWord |-> <<"b">>, newWord |-> <<"c">>, similarity |-> 10000,
     success |-> FALSE, requiredThreshold |-> 51000, points |-> -1000]
CalcHistories ==
    { <<>> } \cup { [i \in 1..k |-> SampleSuccess] \o <<SampleFailure>> :
                       k \in 0..MaxPriorSuccesses }
CalcInputs ==
    { [NoCalc EXCEPT !.similarity = s, !.currentThreshold = t,
                     !.multiplier = m, !.history = h] :
        s \in CalcSimilarities, t \in CalcThresholds,
        m \in CalcMultipliers, h \in CalcHistories }

----------------------------------------------------------------------------
(* Pure helpers *)

Max(a, b) == IF a >= b THEN a ELSE b
Min(a, b) == IF a <= b THEN a ELSE b

\* Math.round(n / d) for d > 0: floor(n/d + 1/2)
MathRound(n, d) == (2 * n + d) \div (2 * d)

RECURSIVE TrimStart(_)
TrimStart(s) == IF s # <<>> /\ Head(s) = " " THEN TrimStart(Tail(s)) ELSE s

RECURSIVE TrimEnd(_)
TrimEnd(s) ==
    IF s # <<>> /\ s[Len(s)] = " " THEN TrimEnd(SubSeq(s, 1, Len(s) - 1)) ELSE s

Trim(s) == TrimEnd(TrimStart(s))

IsCleanedChar(c) == c \in {"\"", "'", "."}

NotCleanedChar(c) == ~IsCleanedChar(c)

\* getRandomKoreanWord: word.replace(/["'.]/g, '').trim()
CleanWord(word) == Trim(SelectSeq(word, NotCleanedChar))

\* variant: only the upper bound is enforced
ClampSimilarityAbove(similarity) == Min(Scale, similarity)

\* calculateSimilarity: Math.max(-1, Math.min(1, similarity))
ClampSimilarity(similarity) == Max(-Scale, Min(Scale, similarity))

Digits == <<"0", "1", "2", "3", "4", "5", "6", "7", "8", "9">>

IsDigit(c) == c \in {"0", "1", "2", "3", "4", "5", "6", "7", "8", "9"}

DigitValue(c) == (CHOOSE d \in DOMAIN Digits : Digits[d] = c) - 1

\* where /-?(\d+(\.\d+)?)/ can start matching: at a digit, or at a minus
\* sign directly before a digit
MatchStarts(text) ==
    { i \in DOMAIN text :
        \/ IsDigit(text[i])
        \/ text[i] = "-" /\ i < Len(text) /\ IsDigit(text[i + 1]) }

\* the last position of the run of digits that begins at i
RECURSIVE DigitRunEnd(_, _)
DigitRunEnd(text, i) ==
    IF i < Len(text) /\ IsDigit(text[i + 1]) THEN DigitRunEnd(text, i + 1) ELSE i

\* the decimal number written by the digits text[i..j]
RECURSIVE DigitsNumber(_, _, _)
DigitsNumber(text, i, j) ==
    IF j < i THEN 0 ELSE 10 * DigitsNumber(text, i, j - 1) + DigitValue(text[j])

RECURSIVE Pow10(_)
Pow10(k) == IF k = 0 THEN 1 ELSE 10 * Pow10(k - 1)

\* text.match(...) then parseFloat(numberMatch[0]), in Scale units: the
\* leftmost match, its sign, its whole part and its decimals (decimals past
\* the resolution of Scale are dropped)
ParseFloatOfMatch(text) ==
    LET start == CHOOSE i \in MatchStarts(text) : \A j \in MatchStarts(text) : i <= j
        negative == text[start] = "-"
        wholeFrom == IF negative THEN start + 1 ELSE start
        wholeTo == DigitRunEnd(text, wholeFrom)
        hasDecimals == /\ wholeTo + 1 < Len(text)
                       /\ text[wholeTo + 1] = "."
                       /\ IsDigit(text[wholeTo + 2])
        decimalsTo == IF hasDecimals THEN DigitRunEnd(text, wholeTo + 2) ELSE wholeTo
        decimals == IF hasDecimals
                      THEN (DigitsNumber(text, wholeTo + 2, decimalsTo) * Scale)
                             \div Pow10(decimalsTo - wholeTo - 1)
                      ELSE 0
        magnitude == DigitsNumber(text, wholeFrom, wholeTo) * Scale + decimals
    IN IF negative THEN -magnitude ELSE magnitude

\* calculateSimilarity after the response arrived: the clamped number, or
\* the throw when the text holds no number
ParseSimilarity(text) ==
    IF MatchStarts(text) = {}
      THEN [ok |-> FALSE, value |-> 0]
      ELSE [ok |-> TRUE, value |-> ClampSimilarity(ParseFloatOfMatch(text))]

\* history.filter(h => h.success).length + 1
RoundNumber(h) == Cardinality({i \in DOMAIN h : h[i].success}) + 1

\* Math.round((similarity - currentThreshold) * 10000)
BasePoints(similarity, threshold) ==
    MathRound((similarity - threshold) * PointsFactor, Scale)

\* variant: the bonus is truncated instead of rounded
BonusPointsTruncated(basePoints, roundNumber) == (basePoints * roundNumber * 2) \div 10

\* Math.round(basePoints * (roundNumber * 0.2))
BonusPoints(basePoints, roundNumber) == MathRound(basePoints * roundNumber * 2, 10)

\* Math.round((basePoints + bonusPoints) * difficulty.multiplier)
TotalPoints(basePoints, bonusPoints, multiplier) ==
    MathRound((basePoints + bonusPoints) * multiplier, 4)

\* similarity >= currentThreshold
IsSuccess(similarity, threshold) == similarity >= threshold

\* variant: the deduction is not clamped
DeductUnclamped(prev) == prev - Penalty

\* setScore(prev => Math.max(0, prev - 1000))
Deduct(prev) == Max(0, prev - Penalty)

\* variants: the game ends one failure late, or one failure early
IsGameOverLate(newLives) == newLives < 0
IsGameOverEarly(newLives) == newLives <= 1

\* if (newLives <= 0)
IsGameOver(newLives) == newLives <= 0

\* variant: the starting word is forgotten once the chain has moved on
UsedWordsWithoutStart(h, word) == {h[i].newWord : i \in DOMAIN h} \cup {word}

\* variant: the used words of the previous session are kept
UsedWordsAcrossSessions(h, word) ==
    {h[i].newWord : i \in DOMAIN h} \cup {word, earlierWord}

\* the set built at the top of handleSubmitWord
AllPreviouslyUsedWords(h, word) ==
    {h[i].newWord : i \in DOMAIN h}
        \cup (IF Len(h) > 0 THEN {h[1].previousWord} ELSE {word})

\* variant: the game screen stays up after the game is over
ScreenShownGameKept ==
    IF gameState \in {PLAYING, GAME_OVER} THEN "GameScreen" ELSE "DifficultySelector"

\* renderContent: the screen, and with it the handlers, the player can reach
ScreenShown ==
    CASE gameState = PLAYING -> "GameScreen"
      [] gameState = GAME_OVER -> "GameOverScreen"
      [] OTHER -> "DifficultySelector"

Snapshot ==
    [gameState |-> gameState, difficulty |-> difficulty,
     currentThreshold |-> currentThreshold, score |-> score,
     currentWord |-> currentWord, history |-> history, lives |-> lives,
     timeLeft |-> timeLeft]


----------------------------------------------------------------------------
(* Initial state: the useState initialisers of App *)

InitSession ==
    /\ gameState = SELECTING_DIFFICULTY
    /\ difficulty = NullDifficulty
    /\ currentThreshold = 0
    /\ score = 0
    /\ currentWord = <<>>
    /\ history = <<>>
    /\ lives = InitialLives
    /\ isLoading = FALSE
    /\ error = "none"
    /\ timeLeft = RoundSeconds
    /\ pending = NoCall
    /\ lastEvent = "init"
    /\ pre = NoSnapshot
    /\ startWord = <<>>
    /\ earlierWord = <<>>
    /\ idleTicks = -1
    /\ finalSimilarity = NullSimilarity
    /\ isLoadingSimilarity = FALSE
    /\ finalCall = "none"
    /\ staleCall = FALSE
    /\ isNewLocalHighScore = FALSE
    /\ submissionComplete = FALSE
    /\ isSubmitting = FALSE
    /\ isLoadingLeaderboard = TRUE
    /\ boardCall = FALSE
    /\ scoreCall = "none"

Init == InitSession /\ calc = NoCalc /\ rank = NoRank

----------------------------------------------------------------------------
(* handleSelectDifficulty: the part before the await, then the two ways    *)
(* the starting-word call resolves.  The selector's buttons are disabled   *)
(* while isLoading.                                                        *)

\* variant: a threshold left by an earlier selection is kept when higher
SelectedThresholdRaised(selectedDifficulty) ==
    Max(currentThreshold, selectedDifficulty.threshold)

\* setCurrentThreshold(selectedDifficulty.threshold)
SelectedThreshold(selectedDifficulty) == selectedDifficulty.threshold

handleSelectDifficulty(selectedDifficulty) ==
    /\ ScreenShown = "DifficultySelector"
    /\ ~isLoading
    /\ pre' = Snapshot
    /\ difficulty' = selectedDifficulty
    /\ currentThreshold' = SelectedThreshold(selectedDifficulty)
    /\ isLoading' = TRUE
    /\ error' = "none"
    /\ history' = <<>>
    /\ score' = 0
    /\ lives' = InitialLives
    /\ timeLeft' = RoundSeconds
    /\ pending' = [kind |-> "start"]
    /\ lastEvent' = "startBegin"
    /\ UNCHANGED <<gameState, currentWord, startWord, earlierWord, idleTicks, calc, rank, screenVars>>

\* onClick of a predefined difficulty button
SelectPredefined ==
    \E level \in predefinedDifficulties : handleSelectDifficulty(level)

\* handleCustomSubmit: parseInt of the box, accepted when 0 < value <= 100
handleCustomSubmit ==
    \E thresholdValue \in CustomInputs :
        /\ thresholdValue > 0 /\ thresholdValue <= 100
        /\ handleSelectDifficulty([name |-> "custom",
                                   threshold |-> thresholdValue * (Scale \div 100),
                                   multiplier |-> 4])

\* variant: the flag is released at the end of the try block, not in finally
LoadingAfterCallStuck(thrown) == thrown

\* finally { setIsLoading(false) }
LoadingAfterCall(thrown) == FALSE

\* try branch after getRandomKoreanWord resolved, then finally
StartWordResolved ==
    /\ pending.kind = "start"
    /\ \E response \in WordResponses :
        LET firstWord == CleanWord(response) IN
        /\ currentWord' = firstWord
        /\ startWord' = firstWord
    /\ gameState' = PLAYING
    /\ isLoading' = LoadingAfterCall(FALSE)
    /\ pending' = NoCall
    /\ lastEvent' = "startOk"
    /\ idleTicks' = 0
    /\ UNCHANGED <<difficulty, currentThreshold, score, history, lives, error,
                   timeLeft, pre, earlierWord, calc, rank, screenVars>>

\* catch branch, then finally
StartWordFailed ==
    /\ pending.kind = "start"
    /\ error' = "oracle"
    /\ gameState' = SELECTING_DIFFICULTY
    /\ isLoading' = LoadingAfterCall(TRUE)
    /\ pending' = NoCall
    /\ lastEvent' = "startFail"
    /\ UNCHANGED <<difficulty, currentThreshold, score, currentWord, history,
                   lives, timeLeft, pre, startWord, earlierWord, idleTicks, calc, rank, screenVars>>

----------------------------------------------------------------------------
(* The interval callback and handleTimeout.  The interval runs only while  *)
(* gameState === PLAYING && !isLoading.                                    *)

\* [...history].reverse().find(h => h.success)?.newWord, else firstWord
RECURSIVE LastSuccessfulWord(_, _)
LastSuccessfulWord(h, firstWord) ==
    IF h = <<>> THEN firstWord
    ELSE IF h[Len(h)].success THEN h[Len(h)].newWord
    ELSE LastSuccessfulWord(SubSeq(h, 1, Len(h) - 1), firstWord)

\* the mount effect of GameOverScreen, run with the history and the score
\* the game ended with: the final similarity, the local record, the
\* leaderboard fetch
GameOverScreenMount(h, finalScore) ==
    /\ IF Len(h) > 0
         THEN LET firstWord == h[1].previousWord
                  lastWord == LastSuccessfulWord(h, firstWord)
              IN IF firstWord # lastWord
                   THEN /\ isLoadingSimilarity' = TRUE
                        /\ finalCall' = "outstanding"
                        /\ UNCHANGED finalSimilarity
                   ELSE /\ finalSimilarity' = [isNull |-> FALSE, value |-> Scale]
                        /\ UNCHANGED <<isLoadingSimilarity, finalCall>>
         ELSE UNCHANGED <<finalSimilarity, isLoadingSimilarity, finalCall>>
    /\ \E savedScore \in SavedScores :
        isNewLocalHighScore' = (finalScore > savedScore)
    /\ isLoadingLeaderboard' = TRUE
    /\ boardCall' = TRUE
    /\ UNCHANGED <<staleCall, submissionComplete, isSubmitting, scoreCall>>

\* variant: the new record replaces the list
AppendAttemptReplacing(prev, attempt) == <<attempt>>

\* setHistory(prev => [...prev, attempt])
AppendAttempt(prev, attempt) == Append(prev, attempt)

\* variant: the timer is left where it was
TimerAfterAttemptKept(t) == t

\* setTimeLeft(30) after an attempt
TimerAfterAttempt(t) == RoundSeconds

\* variant: a timeout records the difficulty's base threshold
TimeoutAttemptBaseThreshold ==
    [previousWord |-> currentWord, newWord |-> TimeoutMarker, similarity |-> 0,
     success |-> FALSE, requiredThreshold |-> difficulty.threshold,
     points |-> -Penalty]

TimeoutAttempt ==
    [previousWord |-> currentWord, newWord |-> TimeoutMarker, similarity |-> 0,
     success |-> FALSE, requiredThreshold |-> currentThreshold, points |-> -Penalty]

handleTimeout ==
    LET newLives == lives - 1 IN
    /\ lives' = newLives
    /\ score' = Deduct(score)
    /\ history' = AppendAttempt(history, TimeoutAttempt)
    /\ IF IsGameOver(newLives)
         THEN /\ gameState' = GAME_OVER
              /\ GameOverScreenMount(history', score')
              /\ UNCHANGED <<error, timeLeft>>
         ELSE /\ error' = "timeout"
              /\ timeLeft' = TimerAfterAttempt(timeLeft)
              /\ UNCHANGED <<gameState, screenVars>>
    /\ lastEvent' = "timeout"

\* variant: the interval is not stopped while a call is outstanding
IntervalRunningWhileLoading == gameState = PLAYING

\* the delay argument of useInterval
IntervalRunning == gameState = PLAYING /\ ~isLoading

\* variant: the timeout waits for the count to show 0
TimeIsUpAtZero(t) == t <= 0

\* if (timeLeft <= 1) handleTimeout()
TimeIsUp(t) == t <= 1

Tick ==
    /\ IntervalRunning
    /\ IF TimeIsUp(timeLeft)
         THEN handleTimeout
         ELSE /\ timeLeft' = timeLeft - 1
              /\ lastEvent' = "tick"
              /\ UNCHANGED <<gameState, score, history, lives, error, screenVars>>
    /\ pre' = NoSnapshot
    /\ idleTicks' = IF idleTicks >= 0 THEN idleTicks + 1 ELSE idleTicks
    /\ UNCHANGED <<difficulty, currentThreshold, currentWord, isLoading, pending,
                   startWord, earlierWord, calc, rank>>

----------------------------------------------------------------------------
(* Submitting a word: the form handler of GameScreen and the part of       *)
(* handleSubmitWord before the await                                       *)

\* handleSubmitWord up to the await: the early return, the used-word test,
\* then setIsLoading(true) and the call
handleSubmitWord(newWord) ==
    IF difficulty = NullDifficulty \/ currentWord = <<>>
      THEN /\ lastEvent' = "submitIgnored"
           /\ pre' = NoSnapshot
           /\ UNCHANGED <<isLoading, error, pending>>
      ELSE IF newWord \in AllPreviouslyUsedWords(history, currentWord)
      THEN /\ error' = "used"
           /\ lastEvent' = "submitReject"
           /\ pre' = NoSnapshot
           /\ UNCHANGED <<isLoading, pending>>
      ELSE /\ isLoading' = TRUE
           /\ error' = "none"
           /\ pending' = [kind |-> "submit", newWord |-> newWord,
                          currentWord |-> currentWord, difficulty |-> difficulty,
                          currentThreshold |-> currentThreshold,
                          history |-> history, lives |-> lives]
           /\ pre' = Snapshot
           /\ lastEvent' = "submitBegin"

\* variant: the form does not look at isLoading
CanSubmitWhileLoading(newWord) == newWord # <<>>

\* inputValue.trim() && !isLoading
CanSubmit(newWord) == newWord # <<>> /\ ~isLoading

\* GameScreen.handleSubmit: if (inputValue.trim() && !isLoading) onSubmit(...)
handleSubmit ==
    /\ ScreenShown = "GameScreen"
    /\ \E inputValue \in WordInputs :
        LET newWord == Trim(inputValue) IN
        IF CanSubmit(newWord)
          THEN handleSubmitWord(newWord)
          ELSE /\ lastEvent' = "submitBlocked"
               /\ UNCHANGED <<isLoading, error, pending, pre>>
    /\ idleTicks' = -1
    /\ UNCHANGED <<sessionVars, startWord, earlierWord, calc, rank, screenVars>>

\* a submission while renderContent shows another screen: there is no word
\* form, so no handler runs
SubmitWithoutForm ==
    /\ ScreenShown # "GameScreen"
    /\ lastEvent' = "submitNoForm"
    /\ UNCHANGED <<sessionVars, isLoading, error, pending, pre, startWord, earlierWord, idleTicks, calc, rank,
                   screenVars>>

----------------------------------------------------------------------------
(* handleSubmitWord after the await.  The closure's captured values are    *)
(* in pending; functional updates (prev => ...) read the current state.    *)

\* variant: the record of a success carries no points
SuccessAttemptUnscored(c, similarity, totalPoints) ==
    [previousWord |-> c.currentWord, newWord |-> c.newWord, similarity |-> similarity,
     success |-> TRUE, requiredThreshold |-> c.currentThreshold, points |-> 0]

SuccessAttempt(c, similarity, totalPoints) ==
    [previousWord |-> c.currentWord, newWord |-> c.newWord, similarity |-> similarity,
     success |-> TRUE, requiredThreshold |-> c.currentThreshold, points |-> totalPoints]

\* variant: the record of a failure carries no penalty
FailureAttemptUnpenalised(c, similarity) ==
    [previousWord |-> c.currentWord, newWord |-> c.newWord, similarity |-> similarity,
     success |-> FALSE, requiredThreshold |-> c.currentThreshold, points |-> 0]

FailureAttempt(c, similarity) ==
    [previousWord |-> c.currentWord, newWord |-> c.newWord, similarity |-> similarity,
     success |-> FALSE, requiredThreshold |-> c.currentThreshold, points |-> -Penalty]

SubmitSuccess(c, similarity) ==
    LET basePoints == BasePoints(similarity, c.currentThreshold)
        roundNumber == RoundNumber(c.history)
        bonusPoints == BonusPoints(basePoints, roundNumber)
        totalPoints == TotalPoints(basePoints, bonusPoints, c.difficulty.multiplier)
    IN
    /\ history' = AppendAttempt(history, SuccessAttempt(c, similarity, totalPoints))
    /\ score' = score + totalPoints
    /\ currentWord' = c.newWord
    /\ currentThreshold' = currentThreshold + ThresholdStep
    /\ lives' = InitialLives
    /\ timeLeft' = TimerAfterAttempt(timeLeft)
    /\ lastEvent' = "submitSuccess"
    /\ UNCHANGED <<gameState, error, screenVars>>

SubmitFailure(c, similarity) ==
    LET newLives == c.lives - 1 IN
    /\ lives' = newLives
    /\ score' = Deduct(score)
    /\ history' = AppendAttempt(history, FailureAttempt(c, similarity))
    /\ IF IsGameOver(newLives)
         THEN /\ gameState' = GAME_OVER
              /\ GameOverScreenMount(history', score')
              /\ UNCHANGED <<error, timeLeft>>
         ELSE /\ error' = "lowSimilarity"
              /\ timeLeft' = TimerAfterAttempt(timeLeft)
              /\ UNCHANGED <<gameState, screenVars>>
    /\ lastEvent' = "submitFailure"
    /\ UNCHANGED <<currentWord, currentThreshold>>

\* variant: an oracle error is charged like a failed attempt
SubmitCatchCharged ==
    /\ error' = "oracle"
    /\ lives' = lives - 1
    /\ score' = Deduct(score)
    /\ UNCHANGED <<gameState, difficulty, currentThreshold, currentWord, history,
                   timeLeft>>

\* catch (e) { setError(...) }
SubmitCatch ==
    /\ error' = "oracle"
    /\ UNCHANGED sessionVars

\* calculateSimilarity answered with a text: the try branch when it holds a
\* number, the catch branch when it does not, then finally
SimilarityResolved ==
    /\ pending.kind = "submit"
    /\ \E text \in SimilarityTexts :
        LET parsed == ParseSimilarity(text) IN
        /\ IF ~parsed.ok
             THEN /\ SubmitCatch
                  /\ lastEvent' = "submitError"
                  /\ UNCHANGED screenVars
             ELSE IF IsSuccess(parsed.value, pending.currentThreshold)
             THEN SubmitSuccess(pending, parsed.value)
             ELSE SubmitFailure(pending, parsed.value)
        /\ isLoading' = LoadingAfterCall(~parsed.ok)
    /\ pending' = NoCall
    /\ UNCHANGED <<difficulty, pre, startWord, earlierWord, idleTicks, calc, rank>>

\* generateGeminiContent threw: catch branch, then finally
SimilarityFailed ==
    /\ pending.kind = "submit"
    /\ SubmitCatch
    /\ isLoading' = LoadingAfterCall(TRUE)
    /\ pending' = NoCall
    /\ lastEvent' = "submitError"
    /\ UNCHANGED <<pre, startWord, earlierWord, idleTicks, calc, rank, screenVars>>

----------------------------------------------------------------------------
(* The similarity call of the game-over screen.  Its result is written    *)
(* with the screen's own setState, which does nothing once the screen is   *)
(* unmounted.  staleCall stands for any number of such calls.              *)

FinalSimilarityResolved ==
    /\ finalCall = "outstanding"
    /\ \E text \in SimilarityTexts :
        LET parsed == ParseSimilarity(text) IN
        IF parsed.ok
          THEN /\ finalSimilarity' = [isNull |-> FALSE, value |-> parsed.value]
               /\ lastEvent' = "finalOk"
          ELSE /\ UNCHANGED finalSimilarity
               /\ lastEvent' = "finalFail"
    /\ isLoadingSimilarity' = FALSE
    /\ finalCall' = "none"
    /\ UNCHANGED <<sessionVars, isLoading, error, pending, pre, startWord, earlierWord, idleTicks, calc, rank,
                   staleCall, recordVars>>

FinalSimilarityFailed ==
    /\ finalCall = "outstanding"
    /\ isLoadingSimilarity' = FALSE
    /\ finalCall' = "none"
    /\ lastEvent' = "finalFail"
    /\ UNCHANGED <<sessionVars, isLoading, error, pending, pre, startWord, earlierWord, idleTicks, calc, rank,
                   finalSimilarity, staleCall, recordVars>>

StaleSimilarityResolved ==
    /\ staleCall
    /\ staleCall' = FALSE
    /\ lastEvent' = "staleResolved"
    /\ UNCHANGED <<sessionVars, isLoading, error, pending, pre, startWord, earlierWord, idleTicks, calc, rank,
                   similarityVars, recordVars>>

\* fetchLeaderboardAndRank of the mount effect: try or catch, then finally
LeaderboardResolved ==
    /\ boardCall
    /\ boardCall' = FALSE
    /\ isLoadingLeaderboard' = FALSE
    /\ lastEvent' = "boardLoaded"
    /\ UNCHANGED <<sessionVars, isLoading, error, pending, pre, startWord, earlierWord, idleTicks,
                   calc, rank, similarityVars, staleCall, isNewLocalHighScore,
                   submissionComplete, isSubmitting, scoreCall>>

\* the name form is rendered for a new record that is not yet submitted;
\* its button is disabled while isSubmitting or while the name is empty
handleNameSubmit ==
    /\ ScreenShown = "GameOverScreen"
    /\ isNewLocalHighScore /\ ~submissionComplete
    /\ ~isSubmitting
    /\ isSubmitting' = TRUE
    /\ scoreCall' = "submit"
    /\ lastEvent' = "nameBegin"
    /\ UNCHANGED <<sessionVars, isLoading, error, pending, pre, startWord, earlierWord, idleTicks,
                   calc, rank, similarityVars, staleCall, isNewLocalHighScore,
                   submissionComplete, isLoadingLeaderboard, boardCall>>

\* submitScore resolved: the record is stored and the leaderboard fetched again
ScoreSubmitted ==
    /\ scoreCall = "submit"
    /\ submissionComplete' = TRUE
    /\ isLoadingLeaderboard' = TRUE
    /\ scoreCall' = "refresh"
    /\ lastEvent' = "nameOk"
    /\ UNCHANGED <<sessionVars, isLoading, error, pending, pre, startWord, earlierWord, idleTicks,
                   calc, rank, similarityVars, staleCall, isNewLocalHighScore,
                   isSubmitting, boardCall>>

\* submitScore rejected: catch, then finally
ScoreSubmitFailed ==
    /\ scoreCall = "submit"
    /\ isSubmitting' = FALSE
    /\ scoreCall' = "none"
    /\ lastEvent' = "nameFail"
    /\ UNCHANGED <<sessionVars, isLoading, error, pending, pre, startWord, earlierWord, idleTicks,
                   calc, rank, similarityVars, staleCall, isNewLocalHighScore,
                   submissionComplete, isLoadingLeaderboard, boardCall>>

\* the second fetchLeaderboardAndRank returned, then finally
LeaderboardRefreshed ==
    /\ scoreCall = "refresh"
    /\ isLoadingLeaderboard' = FALSE
    /\ isSubmitting' = FALSE
    /\ scoreCall' = "none"
    /\ lastEvent' = "nameDone"
    /\ UNCHANGED <<sessionVars, isLoading, error, pending, pre, startWord, earlierWord, idleTicks,
                   calc, rank, similarityVars, staleCall, isNewLocalHighScore,
                   submissionComplete, boardCall>>

----------------------------------------------------------------------------
(* handleRestart: wired to the game-over screen only.  The screen is       *)
(* unmounted, its state is dropped and its call, if any, is left behind.   *)

\* variant: a restart button on every screen
RestartReachableAnywhere == TRUE

\* onRestart is passed to GameOverScreen alone, whose button is rendered
\* when (!isNewLocalHighScore || submissionComplete)
RestartReachable ==
    /\ ScreenShown = "GameOverScreen"
    /\ ~isNewLocalHighScore \/ submissionComplete

handleRestart ==
    /\ RestartReachable
    /\ finalSimilarity' = NullSimilarity
    /\ isLoadingSimilarity' = FALSE
    /\ finalCall' = "none"
    /\ staleCall' = (staleCall \/ finalCall = "outstanding" \/ boardCall
                        \/ scoreCall # "none")
    /\ isNewLocalHighScore' = FALSE
    /\ submissionComplete' = FALSE
    /\ isSubmitting' = FALSE
    /\ isLoadingLeaderboard' = TRUE
    /\ boardCall' = FALSE
    /\ scoreCall' = "none"
    /\ gameState' = SELECTING_DIFFICULTY
    /\ difficulty' = NullDifficulty
    /\ currentThreshold' = 0
    /\ score' = 0
    /\ currentWord' = <<>>
    /\ history' = <<>>
    /\ error' = "none"
    /\ lastEvent' = "restart"
    /\ pre' = NoSnapshot
    /\ startWord' = <<>>
    /\ earlierWord' = startWord
    /\ idleTicks' = -1
    /\ UNCHANGED <<lives, isLoading, timeLeft, pending, calc, rank>>

----------------------------------------------------------------------------

Next ==
    \/ SelectPredefined
    \/ handleCustomSubmit
    \/ StartWordResolved
    \/ StartWordFailed
    \/ Tick
    \/ handleSubmit
    \/ SubmitWithoutForm
    \/ SimilarityResolved
    \/ SimilarityFailed
    \/ FinalSimilarityResolved
    \/ FinalSimilarityFailed
    \/ StaleSimilarityResolved
    \/ LeaderboardResolved
    \/ handleNameSubmit
    \/ ScoreSubmitted
    \/ ScoreSubmitFailed
    \/ LeaderboardRefreshed
    \/ handleRestart

Spec == Init /\ [][Next]_vars

----------------------------------------------------------------------------
(* The score computation of handleSubmitWord as a function of its inputs:  *)
(* the inputs are drawn in the initial state and the computation of the    *)
(* try branch is applied to them.                                          *)

InitPoints == InitSession /\ calc \in CalcInputs /\ rank = NoRank

ComputePoints ==
    /\ ~calc.done
    /\ LET success == IsSuccess(calc.similarity, calc.currentThreshold)
           basePoints == BasePoints(calc.similarity, calc.currentThreshold)
           roundNumber == RoundNumber(calc.history)
           bonusPoints == BonusPoints(basePoints, roundNumber)
           totalPoints == TotalPoints(basePoints, bonusPoints, calc.multiplier)
       IN calc' = IF success
                    THEN [calc EXCEPT !.done = TRUE, !.success = TRUE,
                                      !.basePoints = basePoints,
                                      !.roundNumber = roundNumber,
                                      !.bonusPoints = bonusPoints,
                                      !.points = totalPoints]
                    ELSE [calc EXCEPT !.done = TRUE, !.success = FALSE,
                                      !.roundNumber = roundNumber,
                                      !.points = -Penalty]
    /\ UNCHANGED <<sessionVars, isLoading, error, pending, lastEvent, pre, startWord, earlierWord, idleTicks,
                   rank, screenVars>>

NextPoints == ComputePoints

PointsSpec == InitPoints /\ [][NextPoints]_vars

----------------------------------------------------------------------------
(* calculateRank of the game-over screen as a function of its inputs.      *)

\* variant: a zero score is ranked
NotRankableNegative(scoreToRank) == scoreToRank < 0

NotRankable(scoreToRank) == scoreToRank <= 0

Beats(scoreToRank, entry) == scoreToRank > entry.score

\* variant: the else-if branch is missing
TiesNever(scoreToRank, entry) == FALSE

Ties(scoreToRank, entry) == scoreToRank = entry.score

\* the for loop from 0-based index i - 1 on; NullRank when it runs out
RECURSIVE ScanLeaderboard(_, _, _)
ScanLeaderboard(scoreToRank, currentLeaderboard, i) ==
    IF i > Len(currentLeaderboard) THEN NullRank
    ELSE IF Beats(scoreToRank, currentLeaderboard[i]) THEN i
    ELSE IF Ties(scoreToRank, currentLeaderboard[i]) THEN i
    ELSE ScanLeaderboard(scoreToRank, currentLeaderboard, i + 1)

\* variant: a full board still has room
HasRoomWhenFull(currentLeaderboard) == Len(currentLeaderboard) <= TopRanks

HasRoom(currentLeaderboard) == Len(currentLeaderboard) < TopRanks

\* variant: the last taken rank is handed out again
RoomRankTaken(currentLeaderboard) == Len(currentLeaderboard)

RoomRank(currentLeaderboard) == Len(currentLeaderboard) + 1

calculateRank(scoreToRank, currentLeaderboard) ==
    IF NotRankable(scoreToRank) THEN NullRank
    ELSE LET scanned == ScanLeaderboard(scoreToRank, currentLeaderboard, 1)
         IN IF scanned = NullRank /\ HasRoom(currentLeaderboard)
              THEN RoomRank(currentLeaderboard)
              ELSE scanned

InitRank == InitSession /\ calc = NoCalc /\ rank \in RankInputs

ComputeRank ==
    /\ ~rank.done
    /\ rank' = [rank EXCEPT !.done = TRUE,
                            !.result = calculateRank(rank.scoreToRank,
                                                     rank.currentLeaderboard)]
    /\ UNCHANGED <<sessionVars, isLoading, error, pending, lastEvent, pre, startWord, earlierWord, idleTicks,
                   calc, screenVars>>

NextRank == ComputeRank

RankSpec == InitRank /\ [][NextRank]_vars

----------------------------------------------------------------------------
(* One session under fairness: the interval fires again and again while   *)
(* it is running, and every starting-word and similarity call comes back.  *)

NextSession ==
    \/ SelectPredefined
    \/ StartWordResolved
    \/ StartWordFailed
    \/ Tick
    \/ handleSubmit
    \/ SimilarityResolved
    \/ SimilarityFailed

LiveSpec ==
    /\ Init
    /\ [][NextSession]_vars
    /\ SF_vars(Tick)
    /\ WF_vars(StartWordResolved \/ StartWordFailed)
    /\ WF_vars(SimilarityResolved \/ SimilarityFailed)

----------------------------------------------------------------------------

----------------------------------------------------------------------------
(* Definitions used by the properties *)

\* the used words as the specification defines them: the starting word and
\* every newWord recorded in history
UsedWords == {startWord} \cup {history[i].newWord : i \in DOMAIN history}

RECURSIVE TrailingFailures(_)
TrailingFailures(h) ==
    IF h = <<>> \/ h[Len(h)].success
      THEN 0
      ELSE 1 + TrailingFailures(SubSeq(h, 1, Len(h) - 1))

InSession == gameState \in {PLAYING, GAME_OVER}

\* r is n/d rounded to the nearest integer, halves upwards (d > 0)
IsRounded(r, n, d) == 2 * r * d - d <= 2 * n /\ 2 * n < 2 * r * d + d

SuccessesIn(h) == Cardinality({i \in DOMAIN h : h[i].success})

----------------------------------------------------------------------------
(* Properties *)

\* C1: in every reachable state lives is an integer with 0 <= lives <= 3.
C1_LivesInRange == lives \in 0..3

C1_Witness == lives = 0 /\ lastEvent = "timeout" /\ gameState = GAME_OVER

\* C2 (as claimed): in every reachable state, gameState is GAME_OVER if and
\* only if lives is 0.
C2_GameOverIffNoLives == (gameState = GAME_OVER) <=> (lives = 0)

\* C3: within a session no step decreases the threshold; the threshold goes
\* down only in the steps that end or start a session (restart, difficulty
\* selection).
C3_ThresholdNonDecreasing ==
    [][ /\ (InSession /\ lastEvent' # "restart")
            => currentThreshold' >= currentThreshold
        /\ (currentThreshold' < currentThreshold)
            => lastEvent' \in {"restart", "startBegin"} ]_vars

C3_Witness ==
    /\ gameState = PLAYING
    /\ lastEvent \in {"timeout", "submitFailure"}
    /\ currentThreshold > difficulty.threshold

\* C4: in every reachable state the score is at least 0.
C4_ScoreNonNegative == score >= 0

C4_Witness ==
    /\ lastEvent = "submitFailure"
    /\ pre.score > 0 /\ pre.score < 1000
    /\ score = 0

\* C5: a submission of a used word (the starting word or a recorded newWord)
\* never starts an oracle call, and the rejection changes none of score,
\* lives, timeLeft, threshold, currentWord, history (nor the phase).
C5_UsedWordRejected ==
    [][ /\ (lastEvent' = "submitBegin") => (pending'.newWord \notin UsedWords)
        /\ (lastEvent' = "submitReject")
            => /\ UNCHANGED <<score, lives, timeLeft, currentThreshold,
                              currentWord, history, gameState>>
               /\ pending' = NoCall /\ ~isLoading' ]_vars

C5_Witness ==
    /\ lastEvent = "submitReject"
    /\ error = "used"
    /\ Len(history) >= 2
    /\ history[1].success

\* C6: after the similarity call of a submission failed, the error is shown
\* and score, lives, timeLeft, threshold, currentWord, phase, history (and
\* difficulty) are what they were when the submission was made.
C6_OracleErrorLeavesState ==
    lastEvent = "submitError" => (error = "oracle" /\ Snapshot = pre)

C6_Witness ==
    /\ lastEvent = "submitError"
    /\ pre.timeLeft < 30
    /\ pre.lives < 3
    /\ pre.score > 0

\* C7 (as claimed): after the starting-word call failed, the phase is still
\* SELECTING_DIFFICULTY, the error is shown, and difficulty, threshold, score,
\* lives, timeLeft, history, currentWord are what they were when the
\* difficulty was selected.
C7_FailedStartLeavesState ==
    lastEvent = "startFail"
        => /\ gameState = SELECTING_DIFFICULTY
           /\ error = "oracle"
           /\ Snapshot = pre

\* C8: while the similarity call of a submission is outstanding no tick and
\* no timeout happens and timeLeft stands still; from the submission to its
\* resolution history grows by at most one record and lives drops by at
\* most one.
C8_NoDoublePenalty ==
    [][ (pending.kind = "submit")
          => /\ lastEvent' \notin {"tick", "timeout"}
             /\ (pending'.kind = "submit" => timeLeft' = timeLeft)
             /\ Len(history') <= Len(pre'.history) + 1
             /\ lives' >= pre'.lives - 1 ]_vars

C8_Witness ==
    /\ lastEvent = "submitFailure"
    /\ pre.timeLeft = 1
    /\ lives = pre.lives - 1
    /\ Len(history) = Len(pre.history) + 1

\* C9: for a successful submission, points = round((basePoints + bonus) *
\* multiplier) with basePoints = round((similarity - threshold) * 10000),
\* roundNumber = 1 + successes already in history, bonus = round(basePoints *
\* roundNumber * 0.2); similarity = threshold is a success worth 0 points;
\* threshold 0.5, multiplier 2.0, similarity 0.65 at round 1 gives 3600.
C9_PointsFormula ==
    calc.done =>
        /\ calc.success <=> (calc.similarity >= calc.currentThreshold)
        /\ calc.success =>
            /\ IsRounded(calc.basePoints,
                         (calc.similarity - calc.currentThreshold) * 10000, Scale)
            /\ calc.roundNumber = 1 + SuccessesIn(calc.history)
            /\ IsRounded(calc.bonusPoints, calc.basePoints * calc.roundNumber * 2, 10)
            /\ IsRounded(calc.points,
                         (calc.basePoints + calc.bonusPoints) * calc.multiplier, 4)
        /\ (calc.similarity = calc.currentThreshold)
            => (calc.success /\ calc.points = 0)
        /\ ( /\ calc.currentThreshold = 50000 /\ calc.multiplier = 8
             /\ calc.similarity = 65000 /\ calc.history = <<>> )
            => (calc.basePoints = 1500 /\ calc.bonusPoints = 300 /\ calc.points = 3600)

C9_Witness ==
    /\ calc.done /\ calc.success
    /\ calc.currentThreshold = 50000 /\ calc.multiplier = 8
    /\ calc.similarity = 65000 /\ calc.roundNumber = 1
    /\ calc.points = 3600

\* C10: in a session, the game is over exactly when the last three resolved
\* attempts are failures (failed submissions or timeouts) with no success
\* among them; then lives is 0, and with fewer trailing failures the game is
\* still being played with lives left.
C10_ThreeFailuresEndGame ==
    InSession =>
        /\ (gameState = GAME_OVER) <=> (TrailingFailures(history) = 3)
        /\ TrailingFailures(history) <= 3
        /\ (gameState = GAME_OVER) => (lives = 0)
        /\ (gameState = PLAYING) => (lives >= 1)

C10_Witness ==
    /\ gameState = GAME_OVER /\ lives = 0
    /\ Len(history) >= 4
    /\ history[Len(history) - 3].success
    /\ \E i, j \in (Len(history) - 2)..Len(history) :
        /\ history[i].newWord = TimeoutMarker
        /\ history[j].newWord # TimeoutMarker

SubmitEvents ==
    {"submitNoForm", "submitBlocked", "submitIgnored", "submitReject", "submitBegin"}

C12_RestartYieldsInitialState ==
    lastEvent = "restart"
        => /\ gameState = SELECTING_DIFFICULTY
           /\ difficulty = NullDifficulty
           /\ score = 0
           /\ lives = 3
           /\ timeLeft = 30
           /\ history = <<>>
           /\ currentWord = <<>>
           /\ ~isLoading /\ pending = NoCall

\* C13: when a restart runs, no starting-word or submission call is
\* outstanding; the only call a restart can leave behind is the game-over
\* screen's similarity call, and when that resolves no field of the new
\* session (nor of a later game-over screen) changes.
C13_StaleResultDiscarded ==
    [][ /\ (lastEvent' = "restart") => (pending = NoCall /\ pending' = NoCall)
        /\ (lastEvent' = "staleResolved")
            => UNCHANGED <<sessionVars, isLoading, error, pending,
                           finalSimilarity, isLoadingSimilarity, finalCall>> ]_vars

C13_Witness ==
    /\ lastEvent = "staleResolved"
    /\ gameState = PLAYING
    /\ history # <<>>

RankBoard == rank.currentLeaderboard

IsDescending(lb) == \A i, j \in DOMAIN lb : i < j => lb[i].score >= lb[j].score

\* positions of the entries the candidate reaches or passes
Satisfied(s, lb) == { i \in DOMAIN lb : s >= lb[i].score }

FirstSatisfied(s, lb) ==
    CHOOSE i \in Satisfied(s, lb) : \A j \in Satisfied(s, lb) : i <= j

\* C14: a candidate score of zero or less has no rank, whatever the
\* leaderboard holds, an empty one with room included.
C14_NonPositiveScoreUnranked ==
    (rank.done /\ rank.scoreToRank <= 0) => rank.result = NullRank

C14_Witness ==
    /\ rank.done /\ rank.scoreToRank = 0
    /\ RankBoard = <<>>
    /\ rank.result = NullRank

\* C15: for a positive candidate and a leaderboard in descending order the
\* rank is the position of the first entry the candidate reaches or passes;
\* a tie takes the incumbent's rank ([500, 300, 100] and 300 give 2).
C15_RankOfFirstEntryReached ==
    ( /\ rank.done /\ rank.scoreToRank > 0
      /\ IsDescending(RankBoard)
      /\ Satisfied(rank.scoreToRank, RankBoard) # {} )
        => rank.result = FirstSatisfied(rank.scoreToRank, RankBoard)

C15_Witness ==
    /\ rank.done /\ rank.scoreToRank = 300
    /\ RankBoard = <<[score |-> 500], [score |-> 300], [score |-> 100]>>
    /\ rank.result = 2

\* C16: for a positive candidate that reaches no entry, the rank is the
\* leaderboard's length plus one when it has fewer than three entries and
\* none otherwise.
C16_RoomRemainsOrUnranked ==
    ( /\ rank.done /\ rank.scoreToRank > 0
      /\ Satisfied(rank.scoreToRank, RankBoard) = {} )
        => rank.result = IF Len(RankBoard) < 3 THEN Len(RankBoard) + 1 ELSE NullRank

C16_Witness ==
    /\ rank.done /\ rank.scoreToRank = 50
    /\ RankBoard = <<[score |-> 500], [score |-> 100]>>
    /\ rank.result = 3

ResolvedEvents == {"timeout", "submitSuccess", "submitFailure"}

\* C18: history only grows within a session: a resolved attempt (success,
\* failure or timeout) appends exactly one record to the unchanged earlier
\* records, and every other step except a restart leaves history as it is.
C18_HistoryAppendOnly ==
    [][ /\ (lastEvent' \in ResolvedEvents)
            => /\ Len(history') = Len(history) + 1
               /\ SubSeq(history', 1, Len(history)) = history
        /\ (lastEvent' \notin ResolvedEvents \cup {"restart"})
            => history' = history
        /\ (lastEvent' = "restart") => history' = <<>> ]_vars

C18_Witness ==
    /\ lastEvent = "timeout"
    /\ Len(history) = 3
    /\ ~history[1].success /\ history[1].newWord # TimeoutMarker
    /\ history[2].success
    /\ history[3] = TimeoutAttempt

NewWordRecords(word) == { i \in DOMAIN history : history[i].newWord = word }

\* C19: the current word is the new word of at most one history record,
\* timeouts interleaved with submissions included.
C19_CurrentWordRecordedOnce ==
    Cardinality(NewWordRecords(currentWord)) <= 1

\* C20: the phase changes only from selecting to playing when the starting
\* word arrives, from playing to game over on a failure or timeout that
\* takes the last life, and from game over to selecting on restart; game
\* over is never entered from selecting nor by a successful submission.
C20_PhaseEdges ==
    [][ (gameState' # gameState)
          => \/ /\ gameState = SELECTING_DIFFICULTY /\ gameState' = PLAYING
                /\ lastEvent' = "startOk"
             \/ /\ gameState = PLAYING /\ gameState' = GAME_OVER
                /\ lastEvent' \in {"timeout", "submitFailure"}
                /\ lives' = 0
             \/ /\ gameState = GAME_OVER /\ gameState' = SELECTING_DIFFICULTY
                /\ lastEvent' = "restart" ]_vars

C20_Witness ==
    /\ lastEvent = "restart"
    /\ gameState = SELECTING_DIFFICULTY
    /\ staleCall

\* C21: a session entered after a restart starts with score 0, three lives,
\* 30 seconds, an empty history and the threshold of the difficulty just
\* selected, and only words of the session itself are rejected as used: a
\* word of an earlier session is accepted again.
C21_SessionsShareNothing ==
    [][ /\ (lastEvent' = "startOk")
            => /\ score' = 0 /\ lives' = 3 /\ timeLeft' = 30
               /\ history' = <<>>
               /\ currentThreshold' = difficulty'.threshold
        /\ (lastEvent' = "submitReject")
            => \E inputValue \in WordInputs : Trim(inputValue) \in UsedWords ]_vars

C21_Witness ==
    /\ lastEvent = "submitBegin"
    /\ earlierWord = <<"a">>
    /\ pending.newWord = earlierWord
    /\ history = <<>>
    /\ lives = 3 /\ score = 0

\* C22: in every state whose phase is game over the player can restart,
\* whatever the leaderboard fetch or a new-record name submission is doing.
C22_RestartEnabledInGameOver ==
    gameState = GAME_OVER => RestartReachable

SelectableDifficulties ==
    predefinedDifficulties
        \cup { [name |-> "custom", threshold |-> t * (Scale \div 100), multiplier |-> 4] :
                 t \in 1..100 }

LastAttempt(h) == h[Len(h)]

\* C23: when the starting word arrives the phase is playing, the difficulty
\* is the one selected, the threshold is that difficulty's, score is 0,
\* lives 3, the timer 30, the history empty and the current word the word
\* received, whatever an earlier session or an earlier failed start left.
C23_StartSessionSuccess ==
    [][ /\ (lastEvent' = "startBegin") => difficulty' \in SelectableDifficulties
        /\ (lastEvent' = "startOk")
            => /\ gameState' = PLAYING
               /\ difficulty' = difficulty
               /\ difficulty' \in SelectableDifficulties
               /\ currentThreshold' = difficulty'.threshold
               /\ score' = 0 /\ lives' = 3 /\ timeLeft' = 30
               /\ history' = <<>>
               /\ currentWord' = startWord'
               /\ currentWord' \in { CleanWord(r) : r \in WordResponses } ]_vars

C23_Witness ==
    /\ lastEvent = "startOk"
    /\ earlierWord = <<"b">>
    /\ currentWord = <<"a">>
    /\ difficulty.name = "custom"
    /\ currentThreshold = 30000

\* C24: a successful submission from any playing state adds the attempt's
\* points to the score, raises the threshold by 0.01, makes the candidate
\* the current word, restores three lives and 30 seconds, appends one
\* successful attempt and stays in the playing phase.
C24_SuccessEffect ==
    [][ (lastEvent' = "submitSuccess")
          => /\ gameState = PLAYING /\ gameState' = PLAYING
             /\ Len(history') = Len(history) + 1
             /\ LastAttempt(history').success
             /\ LastAttempt(history').newWord = pending.newWord
             /\ score' = score + LastAttempt(history').points
             /\ currentThreshold' = currentThreshold + Scale \div 100
             /\ currentWord' = pending.newWord
             /\ lives' = 3
             /\ timeLeft' = 30 ]_vars

C24_Witness ==
    /\ lastEvent = "submitSuccess"
    /\ pre.lives = 1 /\ pre.timeLeft < 30
    /\ lives = 3 /\ timeLeft = 30
    /\ score > pre.score

\* what the spec gives a failed attempt: 1000 points off but not below 0,
\* one life off, one failed record of -1000, word and threshold kept, game
\* over at 0 lives and otherwise a fresh 30 seconds
FailedAttemptEffect ==
    /\ gameState = PLAYING
    /\ score' = Max(0, score - 1000)
    /\ lives' = lives - 1
    /\ Len(history') = Len(history) + 1
    /\ ~LastAttempt(history').success
    /\ LastAttempt(history').points = -1000
    /\ UNCHANGED <<currentWord, currentThreshold>>
    /\ IF lives' = 0
         THEN gameState' = GAME_OVER /\ timeLeft' = timeLeft
         ELSE gameState' = PLAYING /\ timeLeft' = 30

\* C25: a failed submission takes 1000 points (not below 0) and exactly one
\* life, appends one failed attempt with -1000 points, keeps the current
\* word and the threshold, and ends the game at 0 lives or else stays in
\* the playing phase with the timer back at 30.
C25_FailureEffect ==
    [][ (lastEvent' = "submitFailure")
          => /\ FailedAttemptEffect
             /\ LastAttempt(history').newWord = pending.newWord
             /\ LastAttempt(history').similarity < currentThreshold ]_vars

C25_Witness ==
    /\ lastEvent = "submitFailure"
    /\ gameState = PLAYING
    /\ lives = 2 /\ timeLeft = 30
    /\ pre.timeLeft < 30 /\ pre.score > 0 /\ score = 0
    /\ Len(history) = 2

\* C26: a timeout does to score, lives, phase, timer, current word and
\* threshold what a failed submission from the same state does, and its
\* record has the timeout marker as new word, similarity 0, no success,
\* -1000 points, the current word as previous word and the current
\* threshold as required threshold.
C26_TimeoutAsFailure ==
    [][ (lastEvent' = "timeout")
          => /\ FailedAttemptEffect
             /\ LastAttempt(history')
                  = [previousWord |-> currentWord, newWord |-> TimeoutMarker,
                     similarity |-> 0, success |-> FALSE,
                     requiredThreshold |-> currentThreshold, points |-> -1000] ]_vars

C26_Witness ==
    /\ lastEvent = "timeout"
    /\ lives = 2 /\ timeLeft = 30
    /\ Len(history) = 2
    /\ history[1].success
    /\ history[2].requiredThreshold = difficulty.threshold + Scale \div 100

AttemptEvents == {"submitSuccess", "submitFailure", "timeout"}

\* C27 as stated: the timer is at 30 right after the session start and right
\* after every resolved attempt.
C27_TimerResetAfterEveryAttempt ==
    lastEvent \in AttemptEvents \cup {"startOk"} => timeLeft = 30

\* C27: the timer is at 30 right after the session start and right after
\* every resolved attempt that leaves the session playing; the attempt
\* that ends the game leaves the timer where it was.
C27_TimerResetWhilePlaying ==
    [][ /\ (lastEvent' = "startOk") => timeLeft' = 30
        /\ (lastEvent' \in AttemptEvents)
            => IF gameState' = PLAYING THEN timeLeft' = 30
                                       ELSE timeLeft' = timeLeft ]_vars

C27_Witness ==
    /\ lastEvent = "submitFailure"
    /\ gameState = PLAYING
    /\ pre.timeLeft = 1
    /\ timeLeft = 30

\* C28: a round is 30 ticks: each tick takes one second off down to 1 and
\* the tick at 1 is the timeout, so the timer stays within 1..30 while
\* playing; a rejected submission or a failed oracle call leaves the timer
\* where it is.
C28_RoundOfThirtyTicks ==
    [][ /\ (gameState' = PLAYING) => timeLeft' \in 1..30
        /\ (lastEvent' = "tick") => (timeLeft > 1 /\ timeLeft' = timeLeft - 1)
        /\ (lastEvent' = "timeout") => timeLeft = 1
        /\ (lastEvent' \in {"submitReject", "submitError", "submitBlocked",
                             "submitIgnored", "submitBegin"})
            => timeLeft' = timeLeft ]_vars

C28_Witness ==
    /\ lastEvent = "tick"
    /\ timeLeft = 1
    /\ error = "used"
    /\ gameState = PLAYING

OracleCalls ==
    (IF pending # NoCall THEN 1 ELSE 0) + (IF finalCall = "outstanding" THEN 1 ELSE 0)

\* C29: a session has at most one oracle call outstanding: a call begins
\* only when none is outstanding and the in-flight flag is clear, and while
\* the flag is set neither a submission nor a difficulty selection changes
\* the outstanding call.
C29_OneOracleCall ==
    [][ /\ OracleCalls' <= 1
        /\ (lastEvent' \in {"submitBegin", "startBegin"})
            => (OracleCalls = 0 /\ ~isLoading /\ isLoading')
        /\ (isLoading /\ lastEvent' \in SubmitEvents \cup {"startBegin"})
            => (lastEvent' \in {"submitBlocked", "submitNoForm"}
                 /\ pending' = pending) ]_vars

C29_Witness ==
    /\ lastEvent = "submitBlocked"
    /\ isLoading
    /\ pending.kind = "submit"
    /\ history # <<>>

\* C30: every similarity that reaches the game is within -1..1: a number
\* outside the range is clamped to the nearer bound and a response without
\* a number raises an error instead of giving a value, so every recorded
\* similarity (and the final similarity of the game-over screen) is within
\* -1..1; the responses -3, 0.5 and 1.5 arrive as -1, 0.5 and 1.
C30_SimilarityInRange ==
    /\ \A i \in DOMAIN history :
        /\ history[i].similarity \in -Scale..Scale
        /\ history[i].similarity \in {-Scale, 0, Scale \div 2, Scale}
    /\ ~finalSimilarity.isNull
        => finalSimilarity.value \in {-Scale, Scale \div 2, Scale}
    /\ lastEvent = "submitError" => history = pre.history

C30_Witness ==
    /\ Len(history) = 2
    /\ history[1].similarity = Scale /\ history[1].success
    /\ history[2].similarity = -Scale /\ ~history[2].success
    /\ lastEvent = "submitFailure"

\* C31: the in-flight flag is set exactly while a starting-word or
\* similarity call is outstanding: when the call resolves, by success or by
\* failure, the flag is cleared, so after a failed starting-word call the
\* selector is usable again and after a failed similarity call the timer
\* runs and the form accepts a word.
C31_FlagReleased ==
    /\ isLoading <=> pending # NoCall
    /\ lastEvent \in {"startOk", "startFail", "submitSuccess", "submitFailure",
                      "submitError"}
        => ~isLoading
    /\ lastEvent = "startFail" => ScreenShown = "DifficultySelector"
    /\ lastEvent = "submitError" => (IntervalRunning /\ CanSubmit(<<"a">>))

C31_Witness ==
    /\ lastEvent = "tick"
    /\ error = "oracle"
    /\ gameState = PLAYING
    /\ ~isLoading
    /\ history # <<>>

\* C32: in a session the threshold is the difficulty's threshold plus 0.01
\* for every successful record, and every record's required threshold is the
\* difficulty's threshold plus 0.01 for every successful record before it.
C32_ThresholdCountsSuccesses ==
    InSession
      => /\ currentThreshold
              = difficulty.threshold + (Scale \div 100) * SuccessesIn(history)
         /\ \A i \in DOMAIN history :
              history[i].requiredThreshold
                = difficulty.threshold
                    + (Scale \div 100) * SuccessesIn(SubSeq(history, 1, i - 1))

C32_Witness ==
    /\ Len(history) = 3
    /\ history[1].success /\ history[2].success /\ ~history[3].success
    /\ history[3].requiredThreshold = difficulty.threshold + 2 * (Scale \div 100)
    /\ currentThreshold = history[3].requiredThreshold

\* s := max(0, s + record.points) over the records in order, from 0
RECURSIVE FoldScore(_)
FoldScore(h) ==
    IF h = <<>> THEN 0
    ELSE Max(0, FoldScore(SubSeq(h, 1, Len(h) - 1)) + h[Len(h)].points)

RECURSIVE SumPoints(_)
SumPoints(h) ==
    IF h = <<>> THEN 0 ELSE SumPoints(SubSeq(h, 1, Len(h) - 1)) + h[Len(h)].points

\* C33: in a session the score is the fold of the history from 0 with
\* s := max(0, s + points); it can differ from the plain sum of the points,
\* since a failure at a score below 1000 takes less than the 1000 it records.
C33_ScoreIsFoldOfHistory ==
    InSession => score = FoldScore(history)

C33_Witness ==
    /\ InSession
    /\ score # SumPoints(history)
    /\ score > 0
    /\ history[1].success

\* C34: in a session lives is 3 minus the number of failed records at the
\* end of the history.
C34_LivesCountTrailingFailures ==
    InSession => lives = 3 - TrailingFailures(history)

C34_Witness ==
    /\ gameState = PLAYING
    /\ Len(history) = 3
    /\ history[1].success
    /\ lives = 1

\* the word the chain stands at after the records h: the new word of the
\* last successful one, or the starting word
ChainWord(h) ==
    LET successes == { i \in DOMAIN h : h[i].success } IN
    IF successes = {} THEN startWord
    ELSE h[CHOOSE i \in successes : \A j \in successes : j <= i].newWord

\* C35: the history is a word chain: every record's previous word is the
\* new word of the latest successful record before it, or the starting word,
\* and the current word is the new word of the last successful record, or
\* the starting word.
C35_WordChain ==
    InSession
      => /\ \A i \in DOMAIN history :
              history[i].previousWord = ChainWord(SubSeq(history, 1, i - 1))
         /\ currentWord = ChainWord(history)

C35_Witness ==
    /\ Len(history) = 3
    /\ startWord = <<"b">>
    /\ history[1].success /\ history[1].newWord = <<"a">>
    /\ history[2] = history[3]
    /\ history[3].newWord = TimeoutMarker
    /\ history[3].previousWord = <<"a">>
    /\ currentWord = <<"a">>

\* C36: while the phase is playing the current word is not empty, whatever
\* non-empty text the starting-word call answered with.
C36_CurrentWordNonEmpty ==
    gameState = PLAYING => currentWord # <<>>

\* the ticks an idle player has let pass: 30 for every timeout recorded and
\* the seconds gone from the running round
IdleGame ==
    /\ (idleTicks >= 0 /\ gameState = PLAYING)
        => /\ idleTicks = 30 * Len(history) + (30 - timeLeft)
           /\ idleTicks < 90
    /\ (idleTicks >= 0 /\ gameState = GAME_OVER) => idleTicks = 90

====
